---- MODULE Spec2Model ----
(***************************************************************************)
(* A model of the /scrape service: the robots.txt policy gate              *)
(* (fetchRobots), the regex based extractor (extractData, stripTags) and   *)
(* the request handler that runs them in sequence.                         *)
(*                                                                         *)
(* Strings are sequences of one-character strings, so that trim, split,    *)
(* startsWith and the tag stripper are computed character by character.    *)
(* A URL is a sequence whose scheme ("https:"), "//" and host are one      *)
(* token each and whose path is spelled character by character.            *)
(***************************************************************************)
EXTENDS Integers, Sequences, FiniteSets, TLC

VARIABLES
    pc,          \* position of the /scrape handler
    url,         \* the value of c.req.query('url')
    origin,      \* targetUrl.origin
    path,        \* targetUrl.pathname + targetUrl.search
    fetchLog,    \* the outbound fetches issued so far, in order
    robotsRes,   \* how the robots fetch ended: "none", "fetchThrows", "notOk", "readThrows", "ok"
    line,        \* the robots line handled by the last loop iteration (untrimmed)
    lineNo,      \* number of robots lines handled so far
    inStar,      \* fetchRobots: inStar
    disallows,   \* fetchRobots: disallows
    crawlDelay,  \* fetchRobots: crawlDelay
    robots,      \* the value fetchRobots returned to the handler
    permitted,   \* the value of robots.allowed(path) at the gate: "unknown", "yes", "no"
    pageRes,     \* how the page fetch ended: "none", "fetchThrows", "notOk", "readThrows", "ok"
    pageStatus,  \* res.status of the page fetch (0 before it completes)
    response,    \* the handler's answer
    html,        \* extractData: the markup, as the matches its three regexes find
    epc,         \* extractData: position inside the function
    title,       \* extractData: title
    headings,    \* extractData: headings
    links,       \* extractData: links (the collected candidates)
    examined,    \* extractData: number of link loop bodies run
    skipped,     \* extractData: number of link loop bodies that ended in the catch
    unique       \* extractData: unique

handlerVars == <<pc, url, origin, path, fetchLog, robotsRes, line, lineNo, inStar,
                 disallows, crawlDelay, robots, permitted, pageRes, pageStatus, response>>
extractVars == <<html, epc, title, headings, links, examined, skipped, unique>>
vars == <<pc, url, origin, path, fetchLog, robotsRes, line, lineNo, inStar,
          disallows, crawlDelay, robots, permitted, pageRes, pageStatus, response,
          html, epc, title, headings, links, examined, skipped, unique>>

(***************************************************************************)
(* Bounds of the model.                                                    *)
(***************************************************************************)
\* longest robots document, in lines
MaxLines == 3
\* most anchor matches in one markup
MaxAnchors == 53
\* most heading matches in one markup
MaxHeadingMatches == 7

Min(a, b) == IF a < b THEN a ELSE b

(***************************************************************************)
(* String primitives of the runtime.                                       *)
(***************************************************************************)
WhiteSpace == {" ", "\t"}

UpperCase == <<"A", "B", "C", "D", "E", "F", "G", "H", "I", "J", "K", "L", "M",
               "N", "O", "P", "Q", "R", "S", "T", "U", "V", "W", "X", "Y", "Z">>
LowerCase == <<"a", "b", "c", "d", "e", "f", "g", "h", "i", "j", "k", "l", "m",
               "n", "o", "p", "q", "r", "s", "t", "u", "v", "w", "x", "y", "z">>

\* one character folded to lower case (the /i flag of the directive regexes)
LowerChar(c) ==
    IF \E i \in 1..26 : UpperCase[i] = c
    THEN LowerCase[CHOOSE i \in 1..26 : UpperCase[i] = c]
    ELSE c

ToLower(s) == [i \in 1..Len(s) |-> LowerChar(s[i])]

RECURSIVE TrimStart(_)
TrimStart(s) ==
    IF s # <<>> /\ Head(s) \in WhiteSpace THEN TrimStart(Tail(s)) ELSE s

RECURSIVE TrimEnd(_)
TrimEnd(s) ==
    IF s # <<>> /\ s[Len(s)] \in WhiteSpace
    THEN TrimEnd(SubSeq(s, 1, Len(s) - 1))
    ELSE s

\* String.prototype.trim
Trim(s) == TrimEnd(TrimStart(s))

\* String.prototype.split(sep) without a limit: every piece between separators
RECURSIVE SplitAll(_, _)
SplitAll(s, sep) ==
    IF \E i \in 1..Len(s) : s[i] = sep
    THEN LET i == CHOOSE j \in 1..Len(s) :
                     s[j] = sep /\ \A m \in 1..(j - 1) : s[m] # sep
         IN  <<SubSeq(s, 1, i - 1)>> \o SplitAll(SubSeq(s, i + 1, Len(s)), sep)
    ELSE <<s>>

\* String.prototype.split(sep, limit): the first `limit` pieces of the full split
SplitLimit(s, sep, limit) ==
    LET all == SplitAll(s, sep)
    IN  SubSeq(all, 1, Min(limit, Len(all)))

\* a variant of startsWith that accepts only the whole string
StartsWithExact(p, d) == p = d
\* String.prototype.startsWith
StartsWith(p, d) == Len(d) <= Len(p) /\ SubSeq(p, 1, Len(d)) = d

(***************************************************************************)
(* Number(v) for the values the model's lines carry: the empty string is   *)
(* 0, an optionally signed run of decimal digits is that integer, anything *)
(* else is NaN.                                                            *)
(***************************************************************************)
Digits == <<"0", "1", "2", "3", "4", "5", "6", "7", "8", "9">>
IsDigit(c) == \E i \in 1..10 : Digits[i] = c
DigitVal(c) == (CHOOSE i \in 1..10 : Digits[i] = c) - 1

RECURSIVE DecimalValue(_)
DecimalValue(s) ==
    IF s = <<>> THEN 0
    ELSE 10 * DecimalValue(SubSeq(s, 1, Len(s) - 1)) + DigitVal(s[Len(s)])

NaN == [nan |-> TRUE, val |-> 0]
Num(n) == [nan |-> FALSE, val |-> n]

Number(v) ==
    IF v = <<>> THEN Num(0)
    ELSE LET signed == Head(v) \in {"-", "+"}
             body == IF signed THEN Tail(v) ELSE v
         IN  IF body # <<>> /\ \A i \in 1..Len(body) : IsDigit(body[i])
             THEN Num(IF Head(v) = "-" THEN 0 - DecimalValue(body)
                                       ELSE DecimalValue(body))
             ELSE NaN

(***************************************************************************)
(* fetchRobots: the parse loop.                                            *)
(***************************************************************************)
\* a crawl delay: undefined, null (in a JSON body) or a number
Undefined == [kind |-> "undefined", val |-> 0]
Null == [kind |-> "null", val |-> 0]
Defined(n) == [kind |-> "number", val |-> n]

KeyUserAgent == <<"u", "s", "e", "r", "-", "a", "g", "e", "n", "t">>
KeyDisallow == <<"d", "i", "s", "a", "l", "l", "o", "w">>
KeyCrawlDelay == <<"c", "r", "a", "w", "l", "-", "d", "e", "l", "a", "y">>

\* /^User-agent$/i.test(k) and its two siblings
KeyIs(k, name) == ToLower(k) = name

\* const [k, vRaw] = line.split(':', 2).map((s) => s.trim())
SplitKV(l) ==
    LET parts == SplitLimit(l, ":", 2)
    IN  [i \in 1..Len(parts) |-> Trim(parts[i])]

DirectiveKey(l) == SplitKV(l)[1]
\* const v = vRaw ?? ''
DirectiveValue(l) == IF Len(SplitKV(l)) >= 2 THEN SplitKV(l)[2] ELSE <<>>

\* if (!line || line.startsWith('#')) continue
Ignored(l) == l = <<>> \/ Head(l) = "#"

\* One iteration of `for (const line of lines)` on the parser state
\* st = [inStar, disallows, crawlDelay]; raw is the line before lines.map(trim).
ParseLine(st, raw) ==
    LET l == Trim(raw)
        k == DirectiveKey(l)
        v == DirectiveValue(l)
    IN  IF Ignored(l) THEN st
        ELSE IF KeyIs(k, KeyUserAgent) THEN [st EXCEPT !.inStar = (v = <<"*">>)]
        ELSE IF ~st.inStar THEN st
        ELSE IF KeyIs(k, KeyDisallow)
             THEN IF v # <<>>
                  THEN [st EXCEPT !.disallows = Append(st.disallows, v)]
                  ELSE st
        ELSE IF KeyIs(k, KeyCrawlDelay)
             THEN IF ~Number(v).nan
                  THEN [st EXCEPT !.crawlDelay = Defined(Number(v).val)]
                  ELSE st
        ELSE st

(***************************************************************************)
(* fetchRobots: the values it returns.                                     *)
(***************************************************************************)
\* a variant of the fail-open result that denies every path
FailClosed == [allowAll |-> FALSE, disallows |-> <<<<"/">>>>, crawlDelay |-> Undefined]
\* return { allowed: () => true }
FailOpen == [allowAll |-> TRUE, disallows |-> <<>>, crawlDelay |-> Undefined]

\* return { allowed: (path) => {...}, crawlDelay }
Parsed(ds, cd) == [allowAll |-> FALSE, disallows |-> ds, crawlDelay |-> cd]

\* the closure `allowed` of the parsed result: the loop over disallows
RECURSIVE AllowedLoop(_, _)
AllowedLoop(ds, p) ==
    IF ds = <<>> THEN TRUE
    ELSE IF Head(ds) = <<>> THEN AllowedLoop(Tail(ds), p)
    ELSE IF StartsWith(p, Head(ds)) THEN FALSE
    ELSE AllowedLoop(Tail(ds), p)

\* robots.allowed(path)
Allowed(r, p) == IF r.allowAll THEN TRUE ELSE AllowedLoop(r.disallows, p)

(***************************************************************************)
(* URLs.  new URL(u) and new URL(raw, base) for the shapes the model uses: *)
(* an absolute URL is scheme, "//", host and an optional path; anything    *)
(* that does not start with a scheme is a reference relative to the base.  *)
(***************************************************************************)
Schemes == {"https:", "http:"}

HasScheme(u) == u # <<>> /\ Head(u) \in Schemes

\* new URL(u): does the constructor throw
UrlThrows(u) == ~(HasScheme(u) /\ Len(u) >= 3 /\ u[2] = "//")

\* new URL(u).origin
UrlOrigin(u) == SubSeq(u, 1, 3)

\* new URL(u).pathname + new URL(u).search: an empty path reads "/"
UrlPath(u) == IF Len(u) = 3 THEN <<"/">> ELSE SubSeq(u, 4, Len(u))

\* new URL(u).toString()
UrlString(u) == UrlOrigin(u) \o UrlPath(u)

\* new URL(raw, base): does the constructor throw (base is an origin)
ResolveThrows(raw, base) == HasScheme(raw) /\ UrlThrows(raw)

\* new URL(raw, base).toString()
Resolve(raw, base) ==
    IF HasScheme(raw) THEN UrlString(raw)
    ELSE IF raw # <<>> /\ Head(raw) = "/" THEN base \o raw
    ELSE base \o <<"/">> \o raw

(***************************************************************************)
(* stripTags.                                                              *)
(***************************************************************************)
\* .replace(/<[^>]+>/g, ''): a "<", at least one character that is not ">",
\* and the first ">" after them
RECURSIVE RemoveTags(_)
RemoveTags(s) ==
    IF s = <<>> THEN <<>>
    ELSE IF Head(s) = "<" /\ \E j \in 3..Len(s) : s[j] = ">" /\ s[2] # ">"
         THEN LET j == CHOOSE m \in 3..Len(s) :
                          s[m] = ">" /\ \A n \in 2..(m - 1) : s[n] # ">"
              IN  RemoveTags(SubSeq(s, j + 1, Len(s)))
         ELSE <<Head(s)>> \o RemoveTags(Tail(s))

\* .replace(/\s+/g, ' ')
RECURSIVE CollapseSpaces(_)
CollapseSpaces(s) ==
    IF s = <<>> THEN <<>>
    ELSE IF Head(s) \in WhiteSpace
         THEN <<" ">> \o CollapseSpaces(TrimStart(s))
         ELSE <<Head(s)>> \o CollapseSpaces(Tail(s))

stripTags(s) == Trim(CollapseSpaces(RemoveTags(s)))

(***************************************************************************)
(* extractData.  The markup is given by what the three regexes match in    *)
(* it: titleMatch holds the first <title> body (or nothing), hMatches the  *)
(* bodies of the heading matches and aMatches the href and body of the     *)
(* anchor matches, each in document order.                                 *)
(***************************************************************************)
HeadingLimit == 5
LinkScanLimit == 50
UniqueLimit == 10

\* a variant of the link loop's guard that lets one more link in
LinkLoopGuardLoose(n) == n <= LinkScanLimit
\* links.length < 50
LinkLoopGuard(n) == n < LinkScanLimit

\* const title = titleMatch ? stripTags(titleMatch[1]) : null
\* (null is the empty sequence, a title the one-element sequence)
ExtractTitle(h) ==
    IF h.titleMatch = <<>> THEN <<>> ELSE <<stripTags(h.titleMatch[1])>>

\* while ((hMatch = hRegex.exec(html)) && headings.length < 5)
RECURSIVE HeadingLoop(_, _)
HeadingLoop(matches, acc) ==
    IF matches = <<>> THEN acc
    ELSE IF ~(Len(acc) < HeadingLimit) THEN acc
    ELSE HeadingLoop(Tail(matches), Append(acc, stripTags(Head(matches))))

ExtractHeadings(h) == HeadingLoop(h.hMatches, <<>>)

\* while ((aMatch = aRegex.exec(html)) && links.length < 50) { try ... catch }
\* st = [links, examined, skipped]
RECURSIVE LinkLoop(_, _, _)
LinkLoop(matches, base, st) ==
    IF matches = <<>> THEN st
    ELSE IF ~LinkLoopGuard(Len(st.links)) THEN st
    ELSE LET m == Head(matches)
             text == stripTags(m.body)
         IN  IF ResolveThrows(m.href, base)
             THEN LinkLoop(Tail(matches), base,
                           [st EXCEPT !.examined = @ + 1, !.skipped = @ + 1])
             ELSE LinkLoop(Tail(matches), base,
                           [st EXCEPT !.examined = @ + 1,
                                      !.links = Append(@, [href |-> Resolve(m.href, base),
                                                           text |-> text])])

ScanLinks(h, base) ==
    LinkLoop(h.aMatches, base, [links |-> <<>>, examined |-> 0, skipped |-> 0])

\* a variant of the deduplication that lets a later anchor replace the entry
RECURSIVE DedupLoopLastWins(_, _, _)
DedupLoopLastWins(ls, seen, acc) ==
    IF ls = <<>> THEN acc
    ELSE IF Head(ls).href \notin seen
         THEN LET acc2 == Append(acc, Head(ls))
              IN  IF Len(acc2) >= UniqueLimit THEN acc2
                  ELSE DedupLoopLastWins(Tail(ls), seen \cup {Head(ls).href}, acc2)
         ELSE DedupLoopLastWins(Tail(ls), seen,
                  [i \in 1..Len(acc) |->
                      IF acc[i].href = Head(ls).href THEN Head(ls) ELSE acc[i]])

\* for (const l of links) { if (!seen.has(l.href)) {...; if (unique.length >= 10) break} }
RECURSIVE DedupLoop(_, _, _)
DedupLoop(ls, seen, acc) ==
    IF ls = <<>> THEN acc
    ELSE IF Head(ls).href \notin seen
         THEN LET acc2 == Append(acc, Head(ls))
              IN  IF Len(acc2) >= UniqueLimit THEN acc2
                  ELSE DedupLoop(Tail(ls), seen \cup {Head(ls).href}, acc2)
         ELSE DedupLoop(Tail(ls), seen, acc)

Dedup(ls) == DedupLoop(ls, {}, <<>>)

\* extractData(html, baseOrigin)
extractData(h, base) ==
    LET scan == ScanLinks(h, base)
    IN  [title |-> ExtractTitle(h),
         headings |-> ExtractHeadings(h),
         collected |-> scan.links,
         examined |-> scan.examined,
         skipped |-> scan.skipped,
         links |-> Dedup(scan.links)]

(***************************************************************************)
(* Inputs: the robots lines, the request URLs and the markups the model    *)
(* draws from.                                                             *)
(***************************************************************************)
\* 'User-agent: *'
LnUserAgentStar ==
    <<"U", "s", "e", "r", "-", "a", "g", "e", "n", "t", ":", " ", "*">>
\* 'user-agent: bot'
LnUserAgentBot ==
    <<"u", "s", "e", "r", "-", "a", "g", "e", "n", "t", ":", " ", "b", "o", "t">>
\* 'User-agent: *:x'
LnUserAgentStarColon ==
    <<"U", "s", "e", "r", "-", "a", "g", "e", "n", "t", ":", " ", "*", ":", "x">>
\* 'Disallow: /a'
LnDisallowA ==
    <<"D", "i", "s", "a", "l", "l", "o", "w", ":", " ", "/", "a">>
\* 'Disallow:'
LnDisallowEmpty ==
    <<"D", "i", "s", "a", "l", "l", "o", "w", ":">>
\* 'Disallow: /a:b'
LnDisallowAColonB ==
    <<"D", "i", "s", "a", "l", "l", "o", "w", ":", " ", "/", "a", ":", "b">>
\* '  DISALLOW : /b '
LnDisallowBPadded ==
    <<" ", " ", "D", "I", "S", "A", "L", "L", "O", "W", " ", ":", " ", "/", "b", " ">>
\* 'Crawl-delay: 10'
LnCrawlDelay10 ==
    <<"C", "r", "a", "w", "l", "-", "d", "e", "l", "a", "y", ":", " ", "1", "0">>
\* 'Crawl-delay: abc'
LnCrawlDelayAbc ==
    <<"C", "r", "a", "w", "l", "-", "d", "e", "l", "a", "y", ":", " ", "a", "b", "c">>
\* 'crawl-delay:'
LnCrawlDelayEmpty ==
    <<"c", "r", "a", "w", "l", "-", "d", "e", "l", "a", "y", ":">>
\* 'Crawl-delay: -5'
LnCrawlDelayNeg ==
    <<"C", "r", "a", "w", "l", "-", "d", "e", "l", "a", "y", ":", " ", "-", "5">>
\* '# Disallow: /'
LnComment ==
    <<"#", " ", "D", "i", "s", "a", "l", "l", "o", "w", ":", " ", "/">>
\* ' '
LnBlank ==
    <<" ">>
\* 'Allow: /a'
LnAllowA ==
    <<"A", "l", "l", "o", "w", ":", " ", "/", "a">>

LinePool ==
    {LnUserAgentStar,
     LnUserAgentBot,
     LnUserAgentStarColon,
     LnDisallowA,
     LnDisallowEmpty,
     LnDisallowAColonB,
     LnDisallowBPadded,
     LnCrawlDelay10,
     LnCrawlDelayAbc,
     LnCrawlDelayEmpty,
     LnCrawlDelayNeg,
     LnComment,
     LnBlank,
     LnAllowA}

Host == "x.test"
BaseOrigin == <<"https:", "//", Host>>

\* const url = c.req.query('url') || 'https://www.sharesansar.com/'
DefaultUrl == <<"https:", "//", "www.sharesansar.com", "/">>

\* the url query values: absent, not a URL, and six paths on one host
UrlPool ==
    {<<>>,
     <<"x", ".", "t">>,
     BaseOrigin,
     BaseOrigin \o <<"/", "a">>,
     BaseOrigin \o <<"/", "a", "b">>,
     BaseOrigin \o <<"/", "a", ":", "b">>,
     BaseOrigin \o <<"/", "b", "?", "q">>,
     BaseOrigin \o <<"/", "c">>}

\* the paths of UrlPool
PathPool == {UrlPath(u) : u \in {v \in UrlPool : ~UrlThrows(v)}}

\* non-success statuses of an upstream answer
BadStatuses == {404, 500}
StatusText(s) == IF s = 404 THEN "Not Found" ELSE "Internal Server Error"

\* the i-th anchor match of a markup: every badEvery-th href cannot be
\* resolved, the others name one of `mod` paths in one of three spellings
\* (rooted, relative, absolute); the body carries the anchor's position
AnchorHref(i, badEvery, mod) ==
    IF badEvery > 0 /\ i % badEvery = 0 THEN <<"https:", "//">>
    ELSE IF i % 3 = 0 THEN <<"/", ToString(i % mod)>>
    ELSE IF i % 3 = 1 THEN <<ToString(i % mod)>>
    ELSE BaseOrigin \o <<"/", ToString(i % mod)>>

AnchorMatch(i, badEvery, mod) ==
    [href |-> AnchorHref(i, badEvery, mod),
     body |-> <<" ", "<", "b", ">", ToString(i), "<", "/", "b", ">", " ", " ", "x", " ">>]

TitleBody == <<" ", " ", "H", "i", " ", "\t", " ", "<", "i", ">", "W", "<", "/", "i", ">", " ">>
HeadingBody(i) == <<"<", "e", "m", ">", "h", ToString(i), "<", "/", "e", "m", ">">>

MakeHtml(n, badEvery, mod, withTitle, nHeadings) ==
    [titleMatch |-> IF withTitle THEN <<TitleBody>> ELSE <<>>,
     hMatches |-> [i \in 1..nHeadings |-> HeadingBody(i)],
     aMatches |-> [i \in 1..n |-> AnchorMatch(i, badEvery, mod)]]

EmptyHtml == MakeHtml(0, 0, 1, FALSE, 0)

\* the markups the handler's page fetch may return
HtmlPool == {EmptyHtml, MakeHtml(5, 4, 2, TRUE, 2)}

\* the markups extractData is applied to on its own
BadEverySet == {0, 9, 30}
DistinctSet == {1, 3, 12}
HeadingCounts == {0, 2, MaxHeadingMatches}
HtmlFamily ==
    {MakeHtml(n, b, m, t, h) :
        n \in 0..MaxAnchors, b \in BadEverySet, m \in DistinctSet,
        t \in BOOLEAN, h \in HeadingCounts}

(***************************************************************************)
(* The responses of the /scrape handler.                                   *)
(***************************************************************************)
NoResponse == [status |-> 0, body |-> [success |-> FALSE]]

\* c.json({ success: false, error: 'Invalid URL' }, 400)
InvalidUrlResponse ==
    [status |-> 400, body |-> [success |-> FALSE, error |-> "Invalid URL"]]

\* c.json({ success: false, error: 'Blocked by robots.txt' }, 403)
BlockedResponse ==
    [status |-> 403, body |-> [success |-> FALSE, error |-> "Blocked by robots.txt"]]

\* c.json({ success: false, status: res.status, statusText: res.statusText }, 502)
UpstreamResponse(s) ==
    [status |-> 502,
     body |-> [success |-> FALSE, status |-> s, statusText |-> StatusText(s)]]

\* c.json({ success: false, error: err?.message ?? String(err) }, 500)
ErrorResponse ==
    [status |-> 500, body |-> [success |-> FALSE, error |-> "fetch failed"]]

\* robots.crawlDelay ?? null
OrNull(cd) == IF cd.kind = "undefined" THEN Null ELSE cd

\* c.json({ success: true, url, robots: { crawlDelay }, data })
SuccessResponse(u, r, data) ==
    [status |-> 200,
     body |-> [success |-> TRUE,
               url |-> UrlString(u),
               robots |-> [crawlDelay |-> OrNull(r.crawlDelay)],
               data |-> [title |-> data.title,
                         headings |-> data.headings,
                         links |-> data.links]]]

RobotsFetch(o) == [kind |-> "robots", url |-> o \o <<"/", "robots.txt">>]
PageFetch(u) == [kind |-> "page", url |-> UrlString(u)]

(***************************************************************************)
(* The state after construction: no request yet.                           *)
(***************************************************************************)
InitHandler ==
    /\ pc = "idle"
    /\ url = <<>>
    /\ origin = <<>>
    /\ path = <<>>
    /\ fetchLog = <<>>
    /\ robotsRes = "none"
    /\ line = <<>>
    /\ lineNo = 0
    /\ inStar = FALSE
    /\ disallows = <<>>
    /\ crawlDelay = Undefined
    /\ robots = FailOpen
    /\ permitted = "unknown"
    /\ pageRes = "none"
    /\ pageStatus = 0
    /\ response = NoResponse

InitExtractVars ==
    /\ html = EmptyHtml
    /\ epc = "idle"
    /\ title = <<>>
    /\ headings = <<>>
    /\ links = <<>>
    /\ examined = 0
    /\ skipped = 0
    /\ unique = <<>>

Init == InitHandler /\ InitExtractVars

(***************************************************************************)
(* app.get('/scrape'): one action per stretch between two awaits, and one  *)
(* per iteration of the robots parse loop.                                 *)
(***************************************************************************)
\* lines 124-136: read the query, parse the URL, call fetchRobots, which
\* issues the robots fetch
Request ==
    /\ pc = "idle"
    /\ \E q \in UrlPool :
          LET u == IF q = <<>> THEN DefaultUrl ELSE q
          IN  /\ url' = u
              /\ IF UrlThrows(u)
                 THEN /\ response' = InvalidUrlResponse
                      /\ pc' = "done"
                      /\ UNCHANGED <<origin, path, fetchLog>>
                 ELSE /\ origin' = UrlOrigin(u)
                      /\ path' = UrlPath(u)
                      /\ fetchLog' = Append(fetchLog, RobotsFetch(UrlOrigin(u)))
                      /\ pc' = "robotsFetch"
                      /\ UNCHANGED response
    /\ UNCHANGED <<robotsRes, line, lineNo, inStar, disallows, crawlDelay, robots,
                   permitted, pageRes, pageStatus>>
    /\ UNCHANGED extractVars

\* fetch(robotsUrl) rejects: the catch of fetchRobots
RobotsFetchThrows ==
    /\ pc = "robotsFetch"
    /\ robotsRes' = "fetchThrows"
    /\ robots' = FailOpen
    /\ pc' = "gate"
    /\ UNCHANGED <<url, origin, path, fetchLog, line, lineNo, inStar, disallows,
                   crawlDelay, permitted, pageRes, pageStatus, response>>
    /\ UNCHANGED extractVars

\* if (!res.ok) return { allowed: () => true }
RobotsNotOk ==
    /\ pc = "robotsFetch"
    /\ robotsRes' = "notOk"
    /\ robots' = FailOpen
    /\ pc' = "gate"
    /\ UNCHANGED <<url, origin, path, fetchLog, line, lineNo, inStar, disallows,
                   crawlDelay, permitted, pageRes, pageStatus, response>>
    /\ UNCHANGED extractVars

\* res.ok: await res.text()
RobotsOk ==
    /\ pc = "robotsFetch"
    /\ robotsRes' = "ok"
    /\ pc' = "robotsRead"
    /\ UNCHANGED <<url, origin, path, fetchLog, line, lineNo, inStar, disallows,
                   crawlDelay, robots, permitted, pageRes, pageStatus, response>>
    /\ UNCHANGED extractVars

\* res.text() rejects: the catch of fetchRobots
RobotsReadThrows ==
    /\ pc = "robotsRead"
    /\ robotsRes' = "readThrows"
    /\ robots' = FailOpen
    /\ pc' = "gate"
    /\ UNCHANGED <<url, origin, path, fetchLog, line, lineNo, inStar, disallows,
                   crawlDelay, permitted, pageRes, pageStatus, response>>
    /\ UNCHANGED extractVars

\* the text arrives: lines 28-31
RobotsReadOk ==
    /\ pc = "robotsRead"
    /\ inStar' = FALSE
    /\ disallows' = <<>>
    /\ crawlDelay' = Undefined
    /\ lineNo' = 0
    /\ pc' = "parse"
    /\ UNCHANGED <<url, origin, path, fetchLog, robotsRes, line, robots, permitted,
                   pageRes, pageStatus, response>>
    /\ UNCHANGED extractVars

\* one iteration of the loop of lines 33-49, on the next line of the text
ParseNext ==
    /\ pc = "parse"
    /\ lineNo < MaxLines
    /\ \E raw \in LinePool :
          LET st == ParseLine([inStar |-> inStar, disallows |-> disallows,
                               crawlDelay |-> crawlDelay], raw)
          IN  /\ line' = raw
              /\ inStar' = st.inStar
              /\ disallows' = st.disallows
              /\ crawlDelay' = st.crawlDelay
    /\ lineNo' = lineNo + 1
    /\ UNCHANGED <<pc, url, origin, path, fetchLog, robotsRes, robots, permitted,
                   pageRes, pageStatus, response>>
    /\ UNCHANGED extractVars

\* the text has no more lines: lines 51-61
ParseDone ==
    /\ pc = "parse"
    /\ robots' = Parsed(disallows, crawlDelay)
    /\ pc' = "gate"
    /\ UNCHANGED <<url, origin, path, fetchLog, robotsRes, line, lineNo, inStar,
                   disallows, crawlDelay, permitted, pageRes, pageStatus, response>>
    /\ UNCHANGED extractVars

\* a variant of the gate that fetches the page whatever the policy says
GateUnchecked ==
    /\ pc = "gate"
    /\ permitted' = IF Allowed(robots, path) THEN "yes" ELSE "no"
    /\ fetchLog' = Append(fetchLog, PageFetch(url))
    /\ pc' = "pageFetch"
    /\ UNCHANGED <<url, origin, path, robotsRes, line, lineNo, inStar, disallows,
                   crawlDelay, robots, pageRes, pageStatus, response>>
    /\ UNCHANGED extractVars

\* lines 137-146: fetchRobots has returned; answer 403 or issue the page fetch
Gate ==
    /\ pc = "gate"
    /\ permitted' = IF Allowed(robots, path) THEN "yes" ELSE "no"
    /\ IF ~Allowed(robots, path)
       THEN /\ response' = BlockedResponse
            /\ pc' = "done"
            /\ UNCHANGED fetchLog
       ELSE /\ fetchLog' = Append(fetchLog, PageFetch(url))
            /\ pc' = "pageFetch"
            /\ UNCHANGED response
    /\ UNCHANGED <<url, origin, path, robotsRes, line, lineNo, inStar, disallows,
                   crawlDelay, robots, pageRes, pageStatus>>
    /\ UNCHANGED extractVars

\* fetch(targetUrl) rejects: the catch of line 167
PageFetchThrows ==
    /\ pc = "pageFetch"
    /\ pageRes' = "fetchThrows"
    /\ response' = ErrorResponse
    /\ pc' = "done"
    /\ UNCHANGED <<url, origin, path, fetchLog, robotsRes, line, lineNo, inStar,
                   disallows, crawlDelay, robots, permitted, pageStatus>>
    /\ UNCHANGED extractVars

\* a variant of the non-success branch that answers 500 without the status
PageNotOkAsError ==
    /\ pc = "pageFetch"
    /\ \E s \in BadStatuses :
          /\ pageStatus' = s
          /\ response' = ErrorResponse
    /\ pageRes' = "notOk"
    /\ pc' = "done"
    /\ UNCHANGED <<url, origin, path, fetchLog, robotsRes, line, lineNo, inStar,
                   disallows, crawlDelay, robots, permitted>>
    /\ UNCHANGED extractVars

\* if (!res.ok) return c.json({...}, 502)
PageNotOk ==
    /\ pc = "pageFetch"
    /\ \E s \in BadStatuses :
          /\ pageStatus' = s
          /\ response' = UpstreamResponse(s)
    /\ pageRes' = "notOk"
    /\ pc' = "done"
    /\ UNCHANGED <<url, origin, path, fetchLog, robotsRes, line, lineNo, inStar,
                   disallows, crawlDelay, robots, permitted>>
    /\ UNCHANGED extractVars

\* res.ok: await res.text()
PageOk ==
    /\ pc = "pageFetch"
    /\ pageStatus' = 200
    /\ pageRes' = "ok"
    /\ pc' = "pageRead"
    /\ UNCHANGED <<url, origin, path, fetchLog, robotsRes, line, lineNo, inStar,
                   disallows, crawlDelay, robots, permitted, response>>
    /\ UNCHANGED extractVars

\* res.text() rejects: the catch of line 167
PageReadThrows ==
    /\ pc = "pageRead"
    /\ pageRes' = "readThrows"
    /\ response' = ErrorResponse
    /\ pc' = "done"
    /\ UNCHANGED <<url, origin, path, fetchLog, robotsRes, line, lineNo, inStar,
                   disallows, crawlDelay, robots, permitted, pageStatus>>
    /\ UNCHANGED extractVars

\* lines 158-166: the markup arrives, extractData runs, the handler answers
PageReadOk ==
    /\ pc = "pageRead"
    /\ \E h \in HtmlPool :
          LET data == extractData(h, origin)
          IN  /\ html' = h
              /\ title' = data.title
              /\ headings' = data.headings
              /\ links' = data.collected
              /\ examined' = data.examined
              /\ skipped' = data.skipped
              /\ unique' = data.links
              /\ response' = SuccessResponse(url, robots, data)
    /\ epc' = "done"
    /\ pc' = "done"
    /\ UNCHANGED <<url, origin, path, fetchLog, robotsRes, line, lineNo, inStar,
                   disallows, crawlDelay, robots, permitted, pageRes, pageStatus>>

Next ==
    \/ Request
    \/ RobotsFetchThrows
    \/ RobotsNotOk
    \/ RobotsOk
    \/ RobotsReadThrows
    \/ RobotsReadOk
    \/ ParseNext
    \/ ParseDone
    \/ Gate
    \/ PageFetchThrows
    \/ PageNotOk
    \/ PageOk
    \/ PageReadThrows
    \/ PageReadOk

Spec == Init /\ [][Next]_vars

(***************************************************************************)
(* extractData on its own: a markup of HtmlFamily, and one action per      *)
(* part of the function.                                                   *)
(***************************************************************************)
InitExtract ==
    /\ InitHandler
    /\ html \in HtmlFamily
    /\ epc = "title"
    /\ title = <<>>
    /\ headings = <<>>
    /\ links = <<>>
    /\ examined = 0
    /\ skipped = 0
    /\ unique = <<>>

\* lines 77-78
ExTitle ==
    /\ epc = "title"
    /\ title' = ExtractTitle(html)
    /\ epc' = "headings"
    /\ UNCHANGED <<html, headings, links, examined, skipped, unique>>
    /\ UNCHANGED handlerVars

\* lines 80-85
ExHeadings ==
    /\ epc = "headings"
    /\ headings' = ExtractHeadings(html)
    /\ epc' = "links"
    /\ UNCHANGED <<html, title, links, examined, skipped, unique>>
    /\ UNCHANGED handlerVars

\* lines 87-100
ExLinks ==
    /\ epc = "links"
    /\ LET scan == ScanLinks(html, BaseOrigin)
       IN  /\ links' = scan.links
           /\ examined' = scan.examined
           /\ skipped' = scan.skipped
    /\ epc' = "dedup"
    /\ UNCHANGED <<html, title, headings, unique>>
    /\ UNCHANGED handlerVars

\* lines 102-113
ExDedup ==
    /\ epc = "dedup"
    /\ unique' = Dedup(links)
    /\ epc' = "done"
    /\ UNCHANGED <<html, title, headings, links, examined, skipped>>
    /\ UNCHANGED handlerVars

NextExtract ==
    \/ ExTitle
    \/ ExHeadings
    \/ ExLinks
    \/ ExDedup

SpecExtract == InitExtract /\ [][NextExtract]_vars

(***************************************************************************)
(* The properties.                                                         *)
(***************************************************************************)
\* the handler has taken its decision at the gate
PastGate == pc \in {"pageFetch", "pageRead", "done"} /\ permitted # "unknown"

\* some entry of the returned policy's disallow list is a literal prefix of p
SomePrefixOf(p) ==
    \E i \in DOMAIN robots.disallows :
        LET d == robots.disallows[i]
        IN  Len(d) <= Len(p) /\ \A j \in 1..Len(d) : p[j] = d[j]

PageFetchIssued == \E i \in DOMAIN fetchLog : fetchLog[i].kind = "page"

\* C1: the target page is fetched only after the robots fetch has completed
\* or failed and the policy permits the path; a request whose path the
\* policy denies is answered 403 "Blocked by robots.txt" and no fetch of the
\* target page is issued; the robots fetch precedes the target fetch.
C1_RobotsGatesPageFetch ==
    /\ \A i \in DOMAIN fetchLog :
          fetchLog[i].kind = "page" =>
              /\ i = 2
              /\ fetchLog[1].kind = "robots"
              /\ robotsRes # "none"
              /\ pc \notin {"robotsFetch", "robotsRead", "parse", "gate"}
              /\ ~(~robots.allowAll /\ SomePrefixOf(path))
    /\ (PastGate /\ ~robots.allowAll /\ SomePrefixOf(path)) =>
          /\ response.status = 403
          /\ response.body.success = FALSE
          /\ response.body.error = "Blocked by robots.txt"
          /\ ~PageFetchIssued

C1_Witness ==
    /\ pc = "done"
    /\ response.status = 403
    /\ fetchLog = <<RobotsFetch(origin)>>
    /\ SomePrefixOf(path)

\* C2: for a successfully fetched robots document and every path p, the
\* policy returns allowed = false if and only if some entry of its disallow
\* list is a literal string prefix of p, and allowed = true otherwise.
C2_AllowedIffNoPrefix ==
    (robotsRes = "ok" /\ pc \in {"gate", "pageFetch", "pageRead", "done"}) =>
        /\ \A p \in PathPool : Allowed(robots, p) <=> ~SomePrefixOf(p)
        /\ permitted = "no" => SomePrefixOf(path)
        /\ permitted = "yes" => ~SomePrefixOf(path)

C2_Witness ==
    /\ robotsRes = "ok"
    /\ permitted = "no"
    /\ Len(robots.disallows) = 2
    /\ \A i \in DOMAIN robots.disallows : robots.disallows[i] # path
    /\ \E p \in PathPool : Allowed(robots, p)

RobotsFailed == robotsRes \in {"fetchThrows", "notOk", "readThrows"}

\* C3: policy evaluation is fail-open and never raises: when the robots
\* fetch returns a non-success status, or the fetch or the reading of the
\* body throws, the result permits every path and carries no crawl delay,
\* the handler goes on to the page fetch, and it answers neither 403 nor,
\* because of the robots failure, 500.
C3_FailOpen ==
    RobotsFailed =>
        /\ \A p \in PathPool : Allowed(robots, p)
        /\ robots.crawlDelay = Undefined
        /\ pc \in {"gate", "pageFetch", "pageRead", "done"}
        /\ permitted # "no"
        /\ response.status # 403
        /\ response.status = 500 => pageRes \in {"fetchThrows", "readThrows"}
        /\ pc = "done" => PageFetchIssued
        /\ response.status = 200 => response.body.robots.crawlDelay = Null

C3_Witness ==
    /\ robotsRes = "readThrows"
    /\ pc = "done"
    /\ response.status = 200
    /\ PageFetchIssued

\* a step of the parse loop: line' is the line it handled
ParseStep == pc = "parse" /\ pc' = "parse" /\ lineNo' = lineNo + 1

\* a directive line read as the specification reads it: the name is what
\* precedes the first colon, the value the whole remainder, both trimmed
FirstColon(l) == CHOOSE j \in 1..Len(l) : l[j] = ":" /\ \A m \in 1..(j - 1) : l[m] # ":"
HasColon(l) == \E j \in 1..Len(l) : l[j] = ":"
NameOf(l) == IF HasColon(l) THEN Trim(SubSeq(l, 1, FirstColon(l) - 1)) ELSE l
ValueOf(l) == IF HasColon(l) THEN Trim(SubSeq(l, FirstColon(l) + 1, Len(l))) ELSE <<>>

\* a decimal numeral, optionally signed
IsNumeral(v) ==
    LET body == IF v # <<>> /\ Head(v) \in {"-", "+"} THEN Tail(v) ELSE v
    IN  body # <<>> /\ \A i \in 1..Len(body) : IsDigit(body[i])

\* C4: a Crawl-delay directive in the open universal group sets the crawl
\* delay to its value only when that value is a number, the last such value
\* winning; a Crawl-delay whose value is not a number (abc, or an empty
\* value) leaves the crawl delay exactly as it was before that line.
C4_NonNumericCrawlDelayIgnored ==
    [][(ParseStep /\ ~Ignored(Trim(line')) /\ KeyIs(NameOf(Trim(line')), KeyCrawlDelay)) =>
          IF inStar /\ IsNumeral(ValueOf(Trim(line')))
          THEN crawlDelay' = Defined(Number(ValueOf(Trim(line'))).val)
          ELSE crawlDelay' = crawlDelay]_vars

\* C8: the crawl delay produced by policy evaluation, and the
\* robots.crawlDelay of a success response, is absent/null or a
\* non-negative number.
C8_CrawlDelayNonNegative ==
    /\ crawlDelay.kind = "number" => crawlDelay.val >= 0
    /\ robots.crawlDelay.kind = "number" => robots.crawlDelay.val >= 0
    /\ response.status = 200 =>
          \/ response.body.robots.crawlDelay = Null
          \/ /\ response.body.robots.crawlDelay.kind = "number"
             /\ response.body.robots.crawlDelay.val >= 0

\* C9: one boolean group state, closed at the start; a User-agent line whose
\* value is exactly * opens it and one with any other value closes it; a
\* Disallow or Crawl-delay line takes effect only when the group is open at
\* that line; the non-empty Disallow values of the open stretches accumulate
\* in order of appearance and are never reset.
C9_GroupStateMachine ==
    [][/\ (pc = "robotsRead" /\ pc' = "parse") => (~inStar' /\ disallows' = <<>>)
       /\ ParseStep =>
            LET l == Trim(line')
            IN  IF Ignored(l)
                THEN inStar' = inStar /\ disallows' = disallows /\ crawlDelay' = crawlDelay
                ELSE IF KeyIs(NameOf(l), KeyUserAgent)
                THEN /\ inStar' = (ValueOf(l) = <<"*">>)
                     /\ disallows' = disallows
                     /\ crawlDelay' = crawlDelay
                ELSE /\ inStar' = inStar
                     /\ ~inStar => (disallows' = disallows /\ crawlDelay' = crawlDelay)
                     /\ (inStar /\ KeyIs(NameOf(l), KeyDisallow) /\ ValueOf(l) # <<>>) =>
                            disallows' = Append(disallows, ValueOf(l))
                     /\ Len(disallows') >= Len(disallows)
                     /\ SubSeq(disallows', 1, Len(disallows)) = disallows]_vars

\* C10: a directive line is split on its first colon only: the value is the
\* whole remainder of the line after the first colon, trimmed, so a
\* `Disallow: /a:b` line in the open group appends the prefix /a:b.
C10_SplitOnFirstColon ==
    [][(ParseStep /\ inStar /\ ~Ignored(Trim(line'))
          /\ KeyIs(NameOf(Trim(line')), KeyDisallow)
          /\ ValueOf(Trim(line')) # <<>>) =>
            disallows' = Append(disallows, ValueOf(Trim(line')))]_vars

\* C7: when the policy permits the path and the page fetch returns a
\* non-success status s, the handler answers 502 with success false and s and
\* its status text echoed, and extraction does not run; when the fetch or
\* the body read throws, the answer is 500 with success false.
C7_UpstreamFailure ==
    /\ pageRes # "none" => permitted = "yes"
    /\ pageRes = "notOk" =>
          /\ pc = "done"
          /\ pageStatus \in BadStatuses
          /\ response.status = 502
          /\ response.body.success = FALSE
          /\ response.body.status = pageStatus
          /\ response.body.statusText = StatusText(pageStatus)
          /\ epc = "idle"
    /\ pageRes \in {"fetchThrows", "readThrows"} =>
          /\ pc = "done"
          /\ response.status = 500
          /\ response.body.success = FALSE
          /\ epc = "idle"

C7_Witness ==
    /\ pageRes = "notOk"
    /\ pageStatus = 500
    /\ response.status = 502
    /\ permitted = "yes"
    /\ robotsRes = "ok"

\* the link scan has run
Scanned == epc \in {"dedup", "done"}

\* the anchor matches among the first n whose href cannot be resolved
Unresolvable(n) ==
    {i \in 1..n : ResolveThrows(html.aMatches[i].href, BaseOrigin)}

FirstWith(h) == CHOOSE i \in DOMAIN links :
                    links[i].href = h /\ \A j \in 1..(i - 1) : links[j].href # h

\* C6: the returned links are at most 10, their hrefs are pairwise distinct,
\* they keep the order of first occurrence among the collected candidates,
\* and each carries the text of the first candidate with its href.
C6_DedupFirstSeen ==
    epc = "done" =>
        /\ Len(unique) <= 10
        /\ \A i, j \in DOMAIN unique : i # j => unique[i].href # unique[j].href
        /\ \A k \in DOMAIN unique :
              /\ \E i \in DOMAIN links : links[i].href = unique[k].href
              /\ unique[k].text = links[FirstWith(unique[k].href)].text
        /\ \A k, m \in DOMAIN unique :
              k < m => FirstWith(unique[k].href) < FirstWith(unique[m].href)
        /\ Len(unique) < 10 =>
              \A i \in DOMAIN links : \E k \in DOMAIN unique : unique[k].href = links[i].href

C6_Witness ==
    /\ epc = "done"
    /\ Len(unique) = 10
    /\ Len(links) > 10
    /\ \E i, j \in DOMAIN links :
          /\ i < j
          /\ links[i].href = links[j].href
          /\ links[i].text # links[j].text
          /\ \E k \in DOMAIN unique : unique[k] = links[i]

====
